---- MODULE Spec2Model ----
(***************************************************************************)
(* Model of ip_check.py: one process run, from module import (environment  *)
(* loading and API key check) through main(), check_ip_country(),          *)
(* fetch_ip_info(), slim_ip_info() and compute_utc_offset_minutes().       *)
(***************************************************************************)
EXTENDS Integers, Sequences, FiniteSets, TLC

\* Largest number of command-line arguments after the program name.
MaxArgs == 2

-----------------------------------------------------------------------------
(* JSON / Python values.  Every value is a tagged tuple, so that values of  *)
(* different Python types can be told apart: None, str (a sequence of       *)
(* characters), bool, int and dict (a function from key strings to values). *)

JNull == <<"null">>
JStr(s) == <<"str", s>>
JTrue == <<"bool", <<"true">>>>
JFalse == <<"bool", <<"false">>>>
JZero == <<"num", <<"0">>>>
JNum90 == <<"num", <<"9", "0">>>>
JInt(n) == <<"int", n>>
EmptyMap == [k \in {} |-> JNull]
JObj(f) == <<"obj", f>>

IsNone(v) == v[1] = "null"
IsStr(v) == v[1] = "str"
IsDict(v) == v[1] = "obj"

\* Python truthiness of a value: None, "", False, 0 and {} are falsy.
Falsy(v) ==
    CASE v[1] = "null" -> TRUE
      [] v[1] = "str" -> Len(v[2]) = 0
      [] v[1] = "bool" -> v = JFalse
      [] v[1] = "num" -> v = JZero
      [] v[1] = "obj" -> DOMAIN v[2] = {}
      [] OTHER -> FALSE

\* A variant that leaves out the `or {}`.
OrEmptyDict_left_out(v) == v

\* Python `x or {}`.
OrEmptyDict(v) == IF Falsy(v) THEN JObj(EmptyMap) ELSE v

\* dict.get(key, default) on a mapping d.
DictGet(d, key, default) == IF key \in DOMAIN d THEN d[key] ELSE default

\* A raised exception / a returned value of a call.
Raise(e) == [exc |-> e, val |-> <<>>]
Return(v) == [exc |-> "none", val |-> <<v>>]

-----------------------------------------------------------------------------
(* str.upper() on the characters the model uses.                            *)

LowerLetters == <<"t", "r", "u", "s">>
UpperLetters == <<"T", "R", "U", "S">>

UpperChar(c) ==
    IF \E i \in 1..Len(LowerLetters) : LowerLetters[i] = c
    THEN UpperLetters[CHOOSE i \in 1..Len(LowerLetters) : LowerLetters[i] = c]
    ELSE c

upper(s) == [i \in 1..Len(s) |-> UpperChar(s[i])]

-----------------------------------------------------------------------------
(* Inputs of a run.                                                         *)

\* The VPNAPI_KEY variable: absent, set to "", or set to a key.
Unset == "<unset>"
KeyValues == {Unset, "", "k3y"}

\* sys.argv: program name, then up to MaxArgs arguments.  The first argument
\* is the ip, the second the expected country code, later ones are ignored.
ProgName == <<"ip_check.py">>
Ips == {<<"8.8.8.8">>}
ExpectedCodes == {<<"T", "R">>, <<"t", "r">>, <<"U", "S">>, <<>>}
ExtraArgs == {<<"x">>}

ArgSet(i) == IF i = 1 THEN Ips ELSE IF i = 2 THEN ExpectedCodes ELSE ExtraArgs

RECURSIVE ArgLists(_)
ArgLists(n) ==
    IF n = 0 THEN {<<>>}
    ELSE {Append(a, x) : a \in ArgLists(n - 1), x \in ArgSet(n)}

Argvs == UNION {{<<ProgName>> \o a : a \in ArgLists(n)} : n \in 0..MaxArgs}

\* How the runtime resolves zone names: "none" when the zoneinfo import
\* failed (ZoneInfo = None), "no_tzdata" when the module is there but the
\* timezone database is missing, "ok" otherwise.
ZoneInfoStates == {"none", "no_tzdata", "ok"}

Istanbul == <<"Europe/Istanbul">>
NewYork == <<"America/New_York">>
Phobos == <<"Mars/Phobos">>

\* Current UTC offset, in seconds, of the zones the timezone database knows.
KnownZones == {Istanbul, NewYork}
UtcOffsetSeconds(name) == IF name = Istanbul THEN 10800 ELSE -18000

\* What upstream may answer.  Absent marks a key the body does not carry.
Absent == <<"absent">>

MapOf(keys, vals) == [k \in {x \in keys : vals[x] # Absent} |-> vals[k]]

CountryCodeValues ==
    {Absent, JNull, JStr(<<"T", "R">>), JStr(<<"t", "r">>), JNum90}
TimeZoneValues ==
    {Absent, JNull, JStr(<<>>), JStr(Istanbul), JStr(NewYork), JStr(Phobos), JNum90}

LocationKeys ==
    {"city", "region", "country", "country_code", "time_zone",
     "latitude", "longitude", "continent"}

LocationMap(cc, tz, rest) ==
    MapOf(LocationKeys,
          [k \in LocationKeys |->
              CASE k = "country_code" -> cc
                [] k = "time_zone" -> tz
                [] k = "city" -> IF rest THEN JStr(<<"Ankara">>) ELSE Absent
                [] k = "region" -> IF rest THEN JNull ELSE Absent
                [] k = "country" -> IF rest THEN JStr(<<"Turkey">>) ELSE Absent
                [] OTHER -> IF rest THEN JStr(<<"39.9">>) ELSE Absent])

LocationValues ==
    {Absent, JNull, JStr(<<"n/a">>)}
    \cup {JObj(LocationMap(cc, tz, rest)) :
            cc \in CountryCodeValues, tz \in TimeZoneValues, rest \in BOOLEAN}

SecurityValues ==
    {Absent, JNull,
     JObj([k \in {"vpn"} |-> JFalse]),
     JObj([k \in {"vpn", "proxy", "tor", "relay", "score"} |->
             CASE k = "vpn" -> JTrue
               [] k = "proxy" -> JNull
               [] k = "tor" -> JStr(<<"yes">>)
               [] OTHER -> JFalse])}

NetworkValues == {Absent, JObj([k \in {"network"} |-> JStr(<<"8.8.8.0/24">>)])}
IpValues == {Absent, JStr(<<"8.8.8.8">>)}

TopKeys == {"ip", "security", "location", "network"}

\* The JSON object bodies of a response.
ObjectBodies ==
    {JObj(MapOf(TopKeys, [k \in TopKeys |->
                  CASE k = "ip" -> i [] k = "security" -> s
                    [] k = "location" -> l [] OTHER -> n])) :
        i \in IpValues, s \in SecurityValues, l \in LocationValues,
        n \in NetworkValues}

\* A body that is no JSON at all.
Unparsable == <<"unparsable">>

\* Bodies that come with an error status, and bodies that parse to
\* something that is no JSON object.
SmallBodies ==
    {Unparsable, JNull, JObj(EmptyMap),
     JObj([k \in {"location"} |->
            JObj([c \in {"country_code"} |-> JStr(<<"T", "R">>)])])}

Statuses == {200, 403, 500}

\* What requests.get meets: the request times out, the connection fails,
\* or a response with a status and a body arrives.
Upstreams ==
    {[transport |-> t, status |-> 200, body |-> Unparsable] :
        t \in {"Timeout", "ConnectionError"}}
    \cup {[transport |-> "response", status |-> st, body |-> b] :
            st \in Statuses, b \in SmallBodies}
    \cup {[transport |-> "response", status |-> 200, body |-> b] :
            b \in ObjectBodies}

-----------------------------------------------------------------------------
(* The functions of ip_check.py.                                            *)

\* load_dotenv(): a variable of the .env file is put into os.environ
\* unless os.environ already has it (override is off by default).
load_dotenv(env, file) == IF env = Unset /\ file # Unset THEN file ELSE env

\* A variant that tests `API_KEY is None` only.
api_key_missing_none_only(key) == key = Unset

\* `not API_KEY`: os.getenv gave None or "".
api_key_missing(key) == key = Unset \/ key = ""

\* A variant without the raise_for_status() call.
raise_for_status_left_out(status) == FALSE

\* raise_for_status(): HTTPError for a 4xx or 5xx status.
raise_for_status(status) == status >= 400 /\ status < 600

\* What fetch_ip_info raises or returns, given what its GET meets:
\* requests.get raises on a timeout or a connection failure,
\* raise_for_status() on an error status, resp.json() on a body that is no
\* JSON, data.get on a body that is no JSON object.
fetch_result(up) ==
    IF up.transport # "response" THEN Raise(up.transport)
    ELSE IF raise_for_status(up.status) THEN Raise("HTTPError")
    ELSE IF up.body = Unparsable THEN Raise("JSONDecodeError")
    ELSE IF ~IsDict(up.body) THEN Raise("AttributeError")
    ELSE LET data == up.body[2] IN
         Return([ip |-> DictGet(data, "ip", JNull),
                 security |->
                    OrEmptyDict(DictGet(data, "security", JObj(EmptyMap))),
                 location |->
                    OrEmptyDict(DictGet(data, "location", JObj(EmptyMap))),
                 network |->
                    OrEmptyDict(DictGet(data, "network", JObj(EmptyMap)))])

\* A variant that sends the request again when the first attempt fails.
fetch_ip_info_retry(up) ==
    [gets |-> IF fetch_result(up).exc # "none" THEN 2 ELSE 1,
     out |-> fetch_result(up)]

\* fetch_ip_info: the call issues its GET once (gets counts the requests
\* sent) and raises or returns.
fetch_ip_info(up) == [gets |-> 1, out |-> fetch_result(up)]

\* ZoneInfo(time_zone): the zone's current offset in seconds, or an
\* exception when the key is no string, no known zone, or no timezone
\* database is installed.
ZoneInfoOffset(time_zone, zi) ==
    IF ~IsStr(time_zone) THEN Raise("TypeError")
    ELSE IF zi = "no_tzdata" \/ time_zone[2] \notin KnownZones
         THEN Raise("ZoneInfoNotFoundError")
         ELSE Return(UtcOffsetSeconds(time_zone[2]))

\* A variant without the try/except around the zone lookup.
compute_utc_offset_minutes_no_except(time_zone, zi) ==
    IF Falsy(time_zone) \/ zi = "none" THEN Return(JNull)
    ELSE LET offset == ZoneInfoOffset(time_zone, zi) IN
         IF offset.exc # "none" THEN Raise(offset.exc)
         ELSE IF Len(offset.val) = 0 THEN Return(JNull)
         ELSE Return(JInt(offset.val[1] \div 60))

compute_utc_offset_minutes(time_zone, zi) ==
    IF Falsy(time_zone) \/ zi = "none" THEN Return(JNull)
    ELSE LET offset == ZoneInfoOffset(time_zone, zi) IN
         IF offset.exc # "none" THEN Return(JNull)
         ELSE IF Len(offset.val) = 0 THEN Return(JNull)
         ELSE Return(JInt(offset.val[1] \div 60))

\* A variant that passes the location and network groups through whole.
slim_ip_info_pass_through(ip_info, zi) ==
    LET security == OrEmptyDict(ip_info.security)
        location == OrEmptyDict(ip_info.location)
    IN  IF ~IsDict(location) \/ ~IsDict(security) THEN Raise("AttributeError")
        ELSE
        LET tz_name == DictGet(location[2], "time_zone", JNull)
            utc_offset_minutes == compute_utc_offset_minutes(tz_name, zi)
        IN  Return(
              [ip |-> ip_info.ip,
               security |->
                 [vpn |-> DictGet(security[2], "vpn", JNull),
                  proxy |-> DictGet(security[2], "proxy", JNull),
                  tor |-> DictGet(security[2], "tor", JNull),
                  relay |-> DictGet(security[2], "relay", JNull)],
               location |->
                 [k \in LocationKeys \cup {"utc_offset_minutes"} |->
                    IF k = "utc_offset_minutes" THEN utc_offset_minutes.val[1]
                    ELSE DictGet(location[2], k, JNull)],
               network |-> ip_info.network])

slim_ip_info(ip_info, zi) ==
    LET security == OrEmptyDict(ip_info.security)
        location == OrEmptyDict(ip_info.location)
    IN  IF ~IsDict(location) THEN Raise("AttributeError")
        ELSE
        LET tz_name == DictGet(location[2], "time_zone", JNull)
            utc_offset_minutes == compute_utc_offset_minutes(tz_name, zi)
        IN  IF utc_offset_minutes.exc # "none" THEN Raise(utc_offset_minutes.exc)
            ELSE IF ~IsDict(security) THEN Raise("AttributeError")
            ELSE Return(
              [ip |-> ip_info.ip,
               security |->
                 [vpn |-> DictGet(security[2], "vpn", JNull),
                  proxy |-> DictGet(security[2], "proxy", JNull),
                  tor |-> DictGet(security[2], "tor", JNull),
                  relay |-> DictGet(security[2], "relay", JNull)],
               location |->
                 [city |-> DictGet(location[2], "city", JNull),
                  region |-> DictGet(location[2], "region", JNull),
                  country |-> DictGet(location[2], "country", JNull),
                  country_code |-> DictGet(location[2], "country_code", JNull),
                  time_zone |-> tz_name,
                  utc_offset_minutes |-> utc_offset_minutes.val[1]]])

\* A variant that compares the codes as they are, without .upper().
same_country_of_exact(ip_country, expected_country_code) ==
    IF ~IsNone(ip_country) /\ ~IsNone(expected_country_code)
    THEN IF ~IsStr(ip_country) THEN Raise("AttributeError")
         ELSE Return(IF ip_country[2] = expected_country_code[2]
                     THEN JTrue ELSE JFalse)
    ELSE Return(JNull)

\* A variant that starts from same_country = False instead of None.
same_country_of_false_default(ip_country, expected_country_code) ==
    IF ~IsNone(ip_country) /\ ~IsNone(expected_country_code)
    THEN IF ~IsStr(ip_country) THEN Raise("AttributeError")
         ELSE Return(IF upper(ip_country[2]) = upper(expected_country_code[2])
                     THEN JTrue ELSE JFalse)
    ELSE Return(JFalse)

\* same_country of check_ip_country: None, or the comparison of the
\* upper-cased codes; .upper() on a value that is no str raises.
same_country_of(ip_country, expected_country_code) ==
    IF ~IsNone(ip_country) /\ ~IsNone(expected_country_code)
    THEN IF ~IsStr(ip_country) THEN Raise("AttributeError")
         ELSE Return(IF upper(ip_country[2]) = upper(expected_country_code[2])
                     THEN JTrue ELSE JFalse)
    ELSE Return(JNull)

\* check_ip_country after its call of fetch_ip_info has returned ip_info.
check_ip_country(ip_info, expected_country_code, zi) ==
    LET slim == slim_ip_info(ip_info, zi) IN
    IF slim.exc # "none" THEN Raise(slim.exc)
    ELSE
    LET ip_country == slim.val[1].location.country_code
        same_country == same_country_of(ip_country, expected_country_code)
    IN  IF same_country.exc # "none" THEN Raise(same_country.exc)
        ELSE Return([same_country |-> same_country.val[1],
                     ip_country_code |-> ip_country,
                     expected_country_code |-> expected_country_code,
                     ip_info |-> slim.val[1]])

\* main's test for the missing <ip> argument (argv holds the program name).
usage_error(args) == Len(args) < 2

\* sys.argv[2] if len(sys.argv) > 2 else None  (Python indexes from 0).
expected_of(args) == IF Len(args) > 2 THEN JStr(args[3]) ELSE JNull

-----------------------------------------------------------------------------
(* One run of the process.                                                  *)

VARIABLES
    pc,                \* where the run is
    env_at_start,      \* VPNAPI_KEY in the environment the process is given
    dotenv,            \* VPNAPI_KEY in the local .env file
    environ,           \* VPNAPI_KEY in os.environ
    API_KEY,           \* the module global
    zoneinfo,          \* the runtime's timezone support
    argv,              \* sys.argv
    ip,                \* main's ip, <<>> until set
    expected_country,  \* main's expected_country
    upstream,          \* what the GET met, <<>> until issued
    requests,          \* number of GET requests issued
    ip_info,           \* the IpInfo fetch_ip_info returned, <<>> if none
    result,            \* the dict check_ip_country returned, <<>> if none
    stdout,            \* documents printed to standard output
    stderr,            \* messages printed to the error stream
    exc,               \* the exception that ended the run, or "none"
    exit_code          \* <<>> while running, then <<code>>

vars == <<pc, env_at_start, dotenv, environ, API_KEY, zoneinfo, argv, ip,
          expected_country, upstream, requests, ip_info, result, stdout,
          stderr, exc, exit_code>>

Init ==
    /\ pc = "import"
    /\ env_at_start \in KeyValues
    /\ environ = env_at_start
    /\ dotenv \in KeyValues
    /\ API_KEY = Unset
    /\ zoneinfo \in ZoneInfoStates
    /\ argv \in Argvs
    /\ ip = <<>>
    /\ expected_country = JNull
    /\ upstream = <<>>
    /\ requests = 0
    /\ ip_info = <<>>
    /\ result = <<>>
    /\ stdout = <<>>
    /\ stderr = <<>>
    /\ exc = "none"
    /\ exit_code = <<>>

\* An exception nobody catches: traceback on the error stream, exit code 1.
Uncaught(e) ==
    /\ exc' = e
    /\ stderr' = Append(stderr, "traceback")
    /\ exit_code' = <<1>>
    /\ pc' = "done"

\* Module level: load_dotenv(), API_KEY = os.getenv(...), the key check.
ModuleImport ==
    /\ pc = "import"
    /\ environ' = load_dotenv(environ, dotenv)
    /\ API_KEY' = environ'
    /\ IF api_key_missing(API_KEY')
       THEN Uncaught("RuntimeError")
       ELSE /\ pc' = "main"
            /\ UNCHANGED <<exc, stderr, exit_code>>
    /\ UNCHANGED <<env_at_start, dotenv, zoneinfo, argv, ip, expected_country,
                   upstream, requests, ip_info, result, stdout>>

\* A variant of the usage branch that returns 0.
MainUsage_returns_zero ==
    /\ pc = "main"
    /\ usage_error(argv)
    /\ stderr' = Append(stderr, "usage")
    /\ exit_code' = <<0>>
    /\ pc' = "done"
    /\ UNCHANGED <<env_at_start, dotenv, environ, API_KEY, zoneinfo, argv, ip,
                   expected_country, upstream, requests, ip_info, result,
                   stdout, exc>>

\* main: the <ip> argument is missing.
MainUsage ==
    /\ pc = "main"
    /\ usage_error(argv)
    /\ stderr' = Append(stderr, "usage")
    /\ exit_code' = <<1>>
    /\ pc' = "done"
    /\ UNCHANGED <<env_at_start, dotenv, environ, API_KEY, zoneinfo, argv, ip,
                   expected_country, upstream, requests, ip_info, result,
                   stdout, exc>>

\* main: read the arguments, log them, call check_ip_country.
MainArgs ==
    /\ pc = "main"
    /\ ~usage_error(argv)
    /\ ip' = <<argv[2]>>
    /\ expected_country' = expected_of(argv)
    /\ stderr' = Append(stderr, "log")
    /\ pc' = "fetch"
    /\ UNCHANGED <<env_at_start, dotenv, environ, API_KEY, zoneinfo, argv,
                   upstream, requests, ip_info, result, stdout, exc, exit_code>>

\* check_ip_country's call of fetch_ip_info.
FetchIpInfo ==
    /\ pc = "fetch"
    /\ \E up \in Upstreams :
         LET r == fetch_ip_info(up) IN
         /\ upstream' = <<up>>
         /\ requests' = requests + r.gets
         /\ ip_info' = r.out.val
         /\ IF r.out.exc # "none"
            THEN Uncaught(r.out.exc)
            ELSE /\ pc' = "check"
                 /\ UNCHANGED <<exc, stderr, exit_code>>
    /\ UNCHANGED <<env_at_start, dotenv, environ, API_KEY, zoneinfo, argv, ip,
                   expected_country, result, stdout>>

\* The rest of check_ip_country: slim, compare, assemble.
CheckIpCountry ==
    /\ pc = "check"
    /\ LET r == check_ip_country(ip_info[1], expected_country, zoneinfo) IN
       /\ result' = r.val
       /\ IF r.exc # "none"
          THEN Uncaught(r.exc)
          ELSE /\ pc' = "print"
               /\ UNCHANGED <<exc, stderr, exit_code>>
    /\ UNCHANGED <<env_at_start, dotenv, environ, API_KEY, zoneinfo, argv, ip,
                   expected_country, upstream, requests, ip_info, stdout>>

\* main: print(json.dumps(result)), return 0.
MainPrint ==
    /\ pc = "print"
    /\ stdout' = Append(stdout, result[1])
    /\ exit_code' = <<0>>
    /\ pc' = "done"
    /\ UNCHANGED <<env_at_start, dotenv, environ, API_KEY, zoneinfo, argv, ip,
                   expected_country, upstream, requests, ip_info, result,
                   stderr, exc>>

Next ==
    \/ ModuleImport
    \/ MainUsage
    \/ MainArgs
    \/ FetchIpInfo
    \/ CheckIpCountry
    \/ MainPrint

Spec == Init /\ [][Next]_vars

-----------------------------------------------------------------------------
(* Vocabulary of the properties, stated on the inputs and outputs of a run. *)

\* The run has reached the end of check_ip_country and holds its result.
HasResult == result # <<>>

\* The parsed body of the response (a mapping) when check_ip_country returned.
Body == upstream[1].body[2]

\* The group the upstream body carries under key g, as a mapping: the empty
\* mapping when the key is absent or its value is null.
UpstreamGroup(g) ==
    IF g \in DOMAIN Body /\ IsDict(Body[g]) THEN Body[g][2] ELSE EmptyMap

\* The field f of group g as upstream sent it, null when it did not.
UpstreamField(g, f) ==
    IF f \in DOMAIN UpstreamGroup(g) THEN UpstreamGroup(g)[f] ELSE JNull

\* Two characters are the same letter up to case.
SameLetter(x, y) ==
    x = y \/ \E i \in 1..Len(LowerLetters) :
                {x, y} = {LowerLetters[i], UpperLetters[i]}

\* Case-insensitive equality of two strings.
EqualIgnoringCase(a, b) ==
    Len(a) = Len(b) /\ \A i \in 1..Len(a) : SameLetter(a[i], b[i])

\* The key is unset or empty once the .env file has been taken into account.
KeyMissingAfterDotenv ==
    \/ env_at_start = ""
    \/ env_at_start = Unset /\ dotenv \in {Unset, ""}

\* The response is an answer with a success status and a JSON object body
\* in which every group that is present is null or a mapping and the
\* country code, if present, is null or a string.
WellTypedResponse ==
    /\ upstream # <<>>
    /\ upstream[1].transport = "response"
    /\ upstream[1].status \in 200..299
    /\ upstream[1].body # Unparsable
    /\ IsDict(upstream[1].body)
    /\ \A g \in DOMAIN Body : g \in {"security", "location", "network"}
                                => IsNone(Body[g]) \/ IsDict(Body[g])
    /\ LET cc == UpstreamField("location", "country_code")
       IN  IsNone(cc) \/ IsStr(cc)

\* The fetch failed: timeout, connection failure, a status that is no
\* success, or a body that is no JSON.
FetchFailed ==
    /\ upstream # <<>>
    /\ \/ upstream[1].transport # "response"
       \/ upstream[1].status \notin 200..299
       \/ upstream[1].body = Unparsable

-----------------------------------------------------------------------------
\* C1: whenever check_ip_country returns and both the resolved country code
\* (location.country_code of the fetched record) and the expected code are
\* strings, same_country is true exactly when the two are equal ignoring
\* letter case, and false otherwise.
C1_SameCountryCaseInsensitive ==
    HasResult =>
        LET c == UpstreamField("location", "country_code")
            e == expected_country
        IN  (IsStr(c) /\ IsStr(e)) =>
                result[1].same_country =
                    (IF EqualIgnoringCase(c[2], e[2]) THEN JTrue ELSE JFalse)

\* C1 witness: two codes that differ only in case compare as true.
C1_Witness ==
    /\ HasResult
    /\ IsStr(UpstreamField("location", "country_code"))
    /\ IsStr(expected_country)
    /\ UpstreamField("location", "country_code")[2] # expected_country[2]
    /\ result[1].same_country = JTrue

\* C2: in every result of check_ip_country, same_country is null when the
\* resolved or the expected country code is null, and it is a boolean only
\* when both are non-null.
C2_NullWhenEitherCodeNull ==
    HasResult =>
        LET c == UpstreamField("location", "country_code")
            e == expected_country
        IN  /\ (IsNone(c) \/ IsNone(e)) => result[1].same_country = JNull
            /\ result[1].same_country \in {JTrue, JFalse}
                   => (~IsNone(c) /\ ~IsNone(e))

\* C2 witness: an expected code was given, upstream sent no country code,
\* and the result says null.
C2_Witness ==
    /\ HasResult
    /\ IsNone(UpstreamField("location", "country_code"))
    /\ IsStr(expected_country)
    /\ result[1].same_country = JNull

\* C3: the ip_info of every result has exactly the keys ip, security and
\* location, its security exactly vpn, proxy, tor, relay and its location
\* exactly city, region, country, country_code, time_zone and
\* utc_offset_minutes, whatever upstream sent.
C3_IpInfoHasExactlyTheWhitelist ==
    HasResult =>
        /\ DOMAIN result[1].ip_info = {"ip", "security", "location"}
        /\ DOMAIN result[1].ip_info.security = {"vpn", "proxy", "tor", "relay"}
        /\ DOMAIN result[1].ip_info.location =
              {"city", "region", "country", "country_code", "time_zone",
               "utc_offset_minutes"}

\* C3 witness: upstream sent a network group, latitude, longitude and
\* continent, and a result was produced.
C3_Witness ==
    /\ HasResult
    /\ "network" \in DOMAIN Body
    /\ {"latitude", "longitude", "continent"} \subseteq DOMAIN UpstreamGroup("location")
    /\ "score" \in DOMAIN UpstreamGroup("security")

\* C4 as stated: a run without the <ip> argument ends with the usage
\* message on the error stream, exit code 1, nothing on standard output and
\* no request sent.
C4_UsageWheneverIpMissing ==
    (Len(argv) < 2 /\ pc = "done") =>
        /\ stderr = <<"usage">>
        /\ exit_code = <<1>>
        /\ stdout = <<>>
        /\ requests = 0

\* C4 amended: a run without the <ip> argument never sends a request and
\* never writes to standard output, and it ends with exit code 1; it prints
\* the usage message if the API key is configured, and the configuration
\* error instead if it is not.
C4_UsageWhenIpMissingAndKeySet ==
    Len(argv) < 2 =>
        /\ requests = 0
        /\ upstream = <<>>
        /\ stdout = <<>>
        /\ pc \in {"import", "main", "done"}
        /\ pc = "done" =>
              /\ exit_code = <<1>>
              /\ stderr = IF KeyMissingAfterDotenv
                          THEN <<"traceback">> ELSE <<"usage">>

\* C4 witness: the key is set, the argument is missing, usage was printed.
C4_Witness ==
    /\ Len(argv) < 2
    /\ ~KeyMissingAfterDotenv
    /\ pc = "done"
    /\ stderr = <<"usage">>

C6_AbortWhenKeyUnsetAtStart ==
    (env_at_start \in {Unset, ""} /\ pc # "import") =>
        /\ pc = "done"
        /\ exc = "RuntimeError"
        /\ requests = 0
        /\ stdout = <<>>

\* C6 amended: if the key is unset or empty after load_dotenv() has read the
\* local .env file (which fills in a variable the environment does not
\* have), the run aborts with RuntimeError and exit code 1 before main: no
\* request is sent, no argument is read, nothing is compared, nothing is
\* written to standard output, whatever the arguments.  Otherwise the run
\* does not abort there.
C6_AbortWhenKeyMissingAfterDotenv ==
    pc # "import" =>
        IF KeyMissingAfterDotenv
        THEN /\ pc = "done"
             /\ exc = "RuntimeError"
             /\ exit_code = <<1>>
             /\ stderr = <<"traceback">>
             /\ requests = 0
             /\ upstream = <<>>
             /\ ip = <<>>
             /\ result = <<>>
             /\ stdout = <<>>
        ELSE exc # "RuntimeError"

\* C6 witness: the key is empty, both arguments are given, the run aborted.
C6_Witness ==
    /\ env_at_start = ""
    /\ Len(argv) > 2
    /\ pc = "done"
    /\ exc = "RuntimeError"

\* C7: in every result, a whitelisted field holds what upstream sent for
\* it and null when upstream did not send it or sent no such group (absent
\* or null group); the IpInfo groups are mappings; and a response whose
\* groups and country code are of the expected types never ends the run
\* with an exception, whichever fields and groups it lacks.
C7_AbsentFieldsAreNull ==
    /\ HasResult =>
          /\ result[1].ip_info.ip = DictGet(Body, "ip", JNull)
          /\ \A f \in {"vpn", "proxy", "tor", "relay"} :
                result[1].ip_info.security[f] = UpstreamField("security", f)
          /\ \A f \in {"city", "region", "country", "country_code", "time_zone"} :
                result[1].ip_info.location[f] = UpstreamField("location", f)
          /\ \A g \in {"security", "location", "network"} :
                ip_info[1][g] = JObj(UpstreamGroup(g))
    /\ WellTypedResponse =>
          /\ exc = "none"
          /\ ip_info # <<>>
          /\ pc \in {"print", "done"} => HasResult

\* C7 witness: upstream sent no security group, a null-free location
\* without a city, and the result was printed with those fields null.
C7_Witness ==
    /\ HasResult
    /\ stdout # <<>>
    /\ "security" \notin DOMAIN Body
    /\ "network" \notin DOMAIN Body
    /\ "location" \in DOMAIN Body
    /\ "city" \notin DOMAIN UpstreamGroup("location")
    /\ "country_code" \in DOMAIN UpstreamGroup("location")
    /\ result[1].ip_info.security.vpn = JNull
    /\ result[1].ip_info.location.city = JNull

\* C7 witness, second case: the location group is null upstream.
C7_WitnessNullGroup ==
    /\ HasResult
    /\ "location" \in DOMAIN Body
    /\ IsNone(Body["location"])

\* C8: no run ends with an exception of the zone lookup; in every result
\* utc_offset_minutes is null when time_zone is null or empty, when the
\* runtime has no zoneinfo, or when the zone cannot be resolved (no string,
\* unknown name, no timezone database), and otherwise it is the integer
\* number of minutes of the zone's offset.
C8_UtcOffsetNeverRaises ==
    /\ exc \notin {"TypeError", "ZoneInfoNotFoundError"}
    /\ HasResult =>
          LET tz == UpstreamField("location", "time_zone")
              u == result[1].ip_info.location.utc_offset_minutes
          IN  IF \/ IsNone(tz)
                 \/ ~IsStr(tz)
                 \/ tz[2] = <<>>
                 \/ zoneinfo # "ok"
                 \/ tz[2] \notin KnownZones
              THEN u = JNull
              ELSE u[1] = "int" /\ u[2] * 60 = UtcOffsetSeconds(tz[2])

\* C8 witness: an unknown zone name with working timezone support gives a
\* result with a null offset.
C8_Witness ==
    /\ HasResult
    /\ zoneinfo = "ok"
    /\ UpstreamField("location", "time_zone") = JStr(Phobos)
    /\ result[1].ip_info.location.utc_offset_minutes = JNull

\* C9: a run sends at most one request: none before the call of
\* fetch_ip_info, exactly one from then on, whether the fetch succeeded or
\* failed.
C9_AtMostOneRequest ==
    /\ requests \in {0, 1}
    /\ requests = 1 <=> upstream # <<>>
    /\ pc \in {"import", "main", "fetch"} => requests = 0
    /\ pc \in {"check", "print"} => requests = 1
    /\ (pc = "done" /\ ip # <<>>) => requests = 1

\* C9 witness: the request timed out and the run ended after that one
\* request.
C9_Witness ==
    /\ pc = "done"
    /\ exc = "Timeout"
    /\ requests = 1

\* C10: when <ip> is given and the fetch succeeded, the run ends with
\* exit code 0 and exactly one document on standard output, in which
\* ip_country_code is ip_info.location.country_code and
\* expected_country_code is the second argument unchanged, or null.
C10_SuccessfulFetchPrintsResult ==
    (pc = "done" /\ Len(argv) >= 2 /\ ip_info # <<>>) =>
        /\ exit_code = <<0>>
        /\ Len(stdout) = 1
        /\ stdout[1].ip_country_code = stdout[1].ip_info.location.country_code
        /\ stdout[1].expected_country_code =
              (IF Len(argv) > 2 THEN JStr(argv[3]) ELSE JNull)

====
